---- MODULE Spec2Model ----
(***************************************************************************)
(* A model of detect_anomalies (src/anomaly_detection.py): the three-layer *)
(* anomaly detection over the aggregated feature table, one action per     *)
(* statement group of the function.                                        *)
(*                                                                         *)
(* Representation.  Sensor values are integers.  A missing value (pandas   *)
(* NaN) is the value NaN, which lies outside the range of every reading.   *)
(* pct_moving is held in per cent (0.5 is 50).  A string of tags is a      *)
(* sequence of tokens: a tag name, or the delimiter ";".  Medians are held *)
(* doubled (the median of an even number of integers is a half-integer).   *)
(***************************************************************************)
EXTENDS Integers, Sequences, FiniteSets, TLC

VARIABLES features, df, pc, loco_i, feat_i, forest, artifact, writes, run, prev,
          stage, csv_files, csv_i, success_count, success, returned, error, steps_run

(* The state of detect_anomalies, and the state of run_full_pipeline *)
detect == <<features, df, pc, loco_i, feat_i, forest, artifact, writes, run, prev>>

pipe == <<stage, csv_files, csv_i, success_count, success, returned, error, steps_run>>

vars == <<detect, pipe>>

----------------------------------------------------------------------------
(* Missing values *)

NaN == -9999

notna(x) == x # NaN

(* abs() of a column value; NaN stays NaN *)
Abs(x) == IF x = NaN THEN NaN ELSE IF x < 0 THEN -x ELSE x

(* x > y and x < y on column values: a comparison with NaN is False *)
Gt(x, y) == x # NaN /\ y # NaN /\ x > y

Lt(x, y) == x # NaN /\ y # NaN /\ x < y

----------------------------------------------------------------------------
(* Configuration (config.py) *)

THRESHOLDS ==
  [temp_motor_max |-> 120, temp_motor_rate_max |-> 5, current_std_max |-> 50,
   battery_min |-> 90, speed_jump_max |-> 30, pressure_min |-> 4]

(* MAD_THRESHOLD = 3.5, held times ten *)
MAD_THRESHOLD_x10 == 35

(* ISOLATION_FOREST_CONTAMINATION, in per cent *)
CONTAMINATION_PCT == 5

ANOMALY_FEATURES ==
  <<"temp_motor1_1_mean", "current_u_mean", "pressure_tr1_mean", "avg_speed">>

(* Constants written in detect_anomalies *)
mad_features == <<"temp_motor1_1_mean", "current_u_mean", "pressure_tr1_mean">>

MAD_MIN_COUNT == 10

MAD_SCALE_x10000 == 14826

MOVING_CUTOFF_PCT == 50

ML_MIN_ROWS == 50

WEIGHT_RULE == 3

WEIGHT_MAD == 2

WEIGHT_ML == 1

ANOMALY_MIN_SCORE == 2

DELIM == ";"

RuleTags ==
  {"HIGH_TEMP", "TEMP_SPIKE", "CURRENT_UNSTABLE", "LOW_BATTERY", "SPEED_JUMP",
   "LOW_PRESSURE"}

(* f'MAD_{feature.upper()}' *)
MadTag(feature) ==
  CASE feature = "temp_motor1_1_mean" -> "MAD_TEMP_MOTOR1_1_MEAN"
    [] feature = "current_u_mean" -> "MAD_CURRENT_U_MEAN"
    [] feature = "pressure_tr1_mean" -> "MAD_PRESSURE_TR1_MEAN"

MadTags == {MadTag(mad_features[k]) : k \in 1..Len(mad_features)}

MLTag == "ML_ISOLATION"

----------------------------------------------------------------------------
(* Sequences and series *)

Range(s) == {s[i] : i \in DOMAIN s}

(* Series.unique(): the distinct values in order of first appearance *)
unique(s) ==
  LET first == {CHOOSE i \in DOMAIN s : s[i] = v /\ \A j \in DOMAIN s : s[j] = v => i <= j :
                  v \in Range(s)}
  IN  [k \in 1..Cardinality(first) |->
         s[CHOOSE i \in first : Cardinality({j \in first : j < i}) = k - 1]]

(* Series.dropna() *)
dropna(s) == SelectSeq(s, notna)

(* Series.median(), doubled; NaN for an empty series *)
median_x2(s) ==
  LET v == SortSeq(dropna(s), <)
      n == Len(v)
  IN  IF n = 0 THEN NaN
      ELSE IF n % 2 = 1 THEN 2 * v[(n + 1) \div 2]
      ELSE v[n \div 2] + v[n \div 2 + 1]

(* calculate_mad on a series without NaN: <<2 * median, 4 * mad>> *)
calculate_mad(series) ==
  LET m2 == median_x2(series)
      dev2 == [i \in 1..Len(series) |-> Abs(2 * series[i] - m2)]
  IN  <<m2, median_x2(dev2)>>

(* z_score > MAD_THRESHOLD for a value x of the group, given <<2 median, 4 mad>>:
   |x - median| / (1.4826 * mad) > 3.5 in exact arithmetic *)
ZScoreExceeds(x, m2, mad4) ==
  /\ x # NaN
  /\ 2 * Abs(2 * x - m2) * 10000 * 10 > MAD_SCALE_x10000 * MAD_THRESHOLD_x10 * mad4

(* str.rstrip(';') *)
RECURSIVE rstrip(_)
rstrip(s) ==
  IF Len(s) > 0 /\ s[Len(s)] = DELIM THEN rstrip(SubSeq(s, 1, Len(s) - 1)) ELSE s

----------------------------------------------------------------------------
(* Input feature tables (the artifact read at features_path) *)

NumUnits == 2

MaxExtraFill == 1

InputCols ==
  {"locoid", "ts", "temp_motor1_1_max", "temp_motor1_1_rate", "current_u_std",
   "battery_volt_min", "avg_speed", "pressure_tr1_min", "temp_motor1_1_mean",
   "current_u_mean", "pressure_tr1_mean", "pct_moving"}

(* A row with every reading within its normal range *)
NormalRow(u, t) ==
  [locoid |-> u, ts |-> t, temp_motor1_1_max |-> 100, temp_motor1_1_rate |-> 0,
   current_u_std |-> 10, battery_volt_min |-> 100, avg_speed |-> 20,
   pressure_tr1_min |-> 6, temp_motor1_1_mean |-> 80, current_u_mean |-> 40,
   pressure_tr1_mean |-> 8, pct_moving |-> 100]

(* A table is a function from its column names to the columns, each a sequence
   with one value per row *)
Table(rows) == [c \in InputCols |-> [i \in 1..Len(rows) |-> rows[i][c]]]

(* r with the fields of o overridden *)
Override(r, o) == [f \in DOMAIN r |-> IF f \in DOMAIN o THEN o[f] ELSE r[f]]

(* One row of one unit: every combination of the five single-row rule inputs
   missing, at its limit, or beyond it *)
RuleTables ==
  {Table(<<Override(NormalRow(1, 1),
                    [temp_motor1_1_max |-> a, temp_motor1_1_rate |-> b,
                     current_u_std |-> c, battery_volt_min |-> d,
                     pressure_tr1_min |-> e])>>) :
     a \in {NaN, THRESHOLDS.temp_motor_max, THRESHOLDS.temp_motor_max + 10},
     b \in {NaN, THRESHOLDS.temp_motor_rate_max, -(THRESHOLDS.temp_motor_rate_max + 1)},
     c \in {NaN, THRESHOLDS.current_std_max, THRESHOLDS.current_std_max + 1},
     d \in {NaN, THRESHOLDS.battery_min, THRESHOLDS.battery_min - 1},
     e \in {NaN, THRESHOLDS.pressure_min, THRESHOLDS.pressure_min - 1}}

(* Two rows, of one unit or of two, in or out of temporal order, with the
   speeds and the supplied temperature rates varied *)
SpeedVals == {NaN, 0, THRESHOLDS.speed_jump_max, THRESHOLDS.speed_jump_max + 1}

RateVals == {NaN, THRESHOLDS.temp_motor_rate_max + 1}

PairTables ==
  {Table(<<Override(NormalRow(1, t), [avg_speed |-> s1, temp_motor1_1_rate |-> r1]),
           Override(NormalRow(u, 3 - t), [avg_speed |-> s2, temp_motor1_1_rate |-> r2])>>) :
     t \in {1, 2}, u \in 1..NumUnits, s1 \in SpeedVals, s2 \in SpeedVals,
     r1 \in RateVals, r2 \in RateVals}

(* Longer tables: one chosen row of a unit, before or after m filler rows of
   the same unit.  A filler row repeats the base value of a feature ("const"),
   alternates between the base and the base plus two ("spread"), or misses
   the feature ("nan"). *)
FillVal(kind, base, k) ==
  CASE kind = "const" -> base
    [] kind = "spread" -> base + 2 * (k % 2)
    [] kind = "nan" -> NaN

FillRow(u, t, k, kinds) ==
  Override(NormalRow(u, t),
           [f \in DOMAIN kinds |-> FillVal(kinds[f], NormalRow(u, t)[f], k)])

Block(u, m, kinds, sp, front) ==
  IF front
  THEN <<Override(NormalRow(u, 1), sp)>> \o [k \in 1..m |-> FillRow(u, k + 1, k, kinds)]
  ELSE [k \in 1..m |-> FillRow(u, k, k, kinds)] \o <<Override(NormalRow(u, m + 1), sp)>>

Kinds(k1, k2, k3) ==
  [temp_motor1_1_mean |-> k1, current_u_mean |-> k2, pressure_tr1_mean |-> k3]

(* Offsets of the chosen row's value from the base: equal, near, far *)
Offsets == {0, 12, 13}

(* Groups around the MAD layer's minimum count *)
MadTables ==
  {Table(Block(1, m, Kinds(k1, k2, k2),
               [temp_motor1_1_max |-> a, temp_motor1_1_mean |-> x,
                current_u_mean |-> y, pressure_tr1_mean |-> z], front)) :
     m \in (MAD_MIN_COUNT - 1)..(MAD_MIN_COUNT + MaxExtraFill),
     k1 \in {"const", "spread"}, k2 \in {"const", "spread"},
     a \in {100, THRESHOLDS.temp_motor_max + 10},
     x \in {NaN} \cup {80 + o : o \in Offsets},
     y \in {40, 40 + 13}, z \in {NaN, 8 + 13}, front \in BOOLEAN}

(* Groups around the ML layer's minimum number of moving rows *)
MlTables ==
  {Table(Block(1, m, kinds,
               [temp_motor1_1_max |-> a, temp_motor1_1_mean |-> x,
                pct_moving |-> p], TRUE)) :
     m \in (ML_MIN_ROWS - 1)..(ML_MIN_ROWS + MaxExtraFill),
     kinds \in {Kinds("const", "const", "const"), Kinds("spread", "const", "const"),
                Kinds("spread", "const", "nan")},
     a \in {100, THRESHOLDS.temp_motor_max + 10},
     x \in {NaN, 80, 80 + 13},
     p \in {NaN, MOVING_CUTOFF_PCT, MOVING_CUTOFF_PCT + 1}}

(* Rows of two sequences taken in turn, the rest of the longer one last *)
Mix(a, b) ==
  LET n == IF Len(a) < Len(b) THEN Len(a) ELSE Len(b)
  IN  [i \in 1..(2 * n) |-> IF i % 2 = 1 THEN a[(i + 1) \div 2] ELSE b[i \div 2]]
        \o SubSeq(a, n + 1, Len(a)) \o SubSeq(b, n + 1, Len(b))

Layout(a, b, layout) ==
  CASE layout = "AB" -> a \o b
    [] layout = "BA" -> b \o a
    [] layout = "mix" -> Mix(a, b)

(* Two units, each with its own group *)
TwoUnitTables ==
  {Table(Layout(Block(1, MAD_MIN_COUNT, Kinds("spread", "spread", "const"),
                      [temp_motor1_1_mean |-> x1], TRUE),
                Block(2, MAD_MIN_COUNT, Kinds("spread", "const", "const"),
                      [temp_motor1_1_mean |-> x2], FALSE), layout)) :
     x1 \in {80, 80 + 13}, x2 \in {80, 80 + 13}, layout \in {"AB", "BA", "mix"}}

(* A table that lacks one column *)
MissingColTables ==
  {[f \in InputCols \ {c} |-> <<NormalRow(1, 1)[f]>>] : c \in InputCols \ {"ts"}}

(* Tables of two units for a second run: the group of unit 1 around either
   minimum, with a far value in its chosen row; the group of unit 2 varied in
   size, values and speed; the two groups one after the other or interleaved *)
RerunBlocksB ==
  {Block(2, MAD_MIN_COUNT, Kinds("const", "const", "const"), [avg_speed |-> 20], FALSE),
   Block(2, MAD_MIN_COUNT, Kinds("spread", "const", "const"),
         [temp_motor1_1_mean |-> 80 + 13, avg_speed |-> 60], FALSE),
   Block(2, ML_MIN_ROWS, Kinds("const", "const", "const"), [avg_speed |-> 60], FALSE),
   Block(2, ML_MIN_ROWS, Kinds("const", "const", "nan"),
         [pressure_tr1_mean |-> NaN], FALSE)}

RerunTablesIn(layouts) ==
  {Table(Layout(Block(1, m, Kinds("spread", "const", "const"),
                      [temp_motor1_1_mean |-> 80 + 13], TRUE), b, layout)) :
     m \in {MAD_MIN_COUNT, ML_MIN_ROWS}, b \in RerunBlocksB, layout \in layouts}

RerunTables == RerunTablesIn({"BA", "mix"})

Tables == RuleTables \cup PairTables \cup MadTables \cup MlTables \cup TwoUnitTables
            \cup MissingColTables

----------------------------------------------------------------------------
(* The working frame df *)

NoTable == <<>>

(* len(df) *)
len(d) == IF DOMAIN d = {} THEN 0 ELSE Len(d[CHOOSE c \in DOMAIN d : TRUE])

(* Row i of a table, as a record of its columns *)
Row(d, i) == [c \in DOMAIN d |-> d[c][i]]

AnomalyCols == {"anomaly_rule", "anomaly_mad", "anomaly_ml", "anomaly_types"}

(* pd.read_parquet, then the four anomaly columns initialised *)
LoadFrame(t) ==
  [c \in DOMAIN t \cup AnomalyCols |->
     IF c \in DOMAIN t THEN t[c]
     ELSE IF c = "anomaly_types" THEN [i \in 1..len(t) |-> <<>>]
     ELSE [i \in 1..len(t) |-> 0]]

(* df[name] = values, for a new or an existing column *)
SetColumn(d, name, values) ==
  [c \in DOMAIN d \cup {name} |-> IF c = name THEN values ELSE d[c]]

(* The flag set and the tag not appended *)
Mark_untagged(d, mask, flag, tag) ==
  LET hit == {i \in 1..len(d) : mask[i]}
  IN  [d EXCEPT ![flag] = [i \in 1..len(d) |-> IF i \in hit THEN 1 ELSE d[flag][i]]]

(* df.loc[mask, flag] = 1; df.loc[mask, 'anomaly_types'] += tag + ';' *)
Mark(d, mask, flag, tag) ==
  LET hit == {i \in 1..len(d) : mask[i]}
  IN  [d EXCEPT ![flag] = [i \in 1..len(d) |-> IF i \in hit THEN 1 ELSE d[flag][i]],
                !["anomaly_types"] =
                  [i \in 1..len(d) |->
                     IF i \in hit THEN d.anomaly_types[i] \o <<tag, DELIM>>
                     ELSE d.anomaly_types[i]]]

(* Layer 1 masks *)
temp_high(d) ==
  [i \in 1..len(d) |-> Gt(d.temp_motor1_1_max[i], THRESHOLDS.temp_motor_max)]

(* temp_rate_high without .abs(): a falling temperature never triggers *)
temp_rate_signed(d) ==
  [i \in 1..len(d) |-> Gt(d.temp_motor1_1_rate[i], THRESHOLDS.temp_motor_rate_max)]

temp_rate_high(d) ==
  [i \in 1..len(d) |-> Gt(Abs(d.temp_motor1_1_rate[i]), THRESHOLDS.temp_motor_rate_max)]

current_unstable(d) ==
  [i \in 1..len(d) |-> Gt(d.current_u_std[i], THRESHOLDS.current_std_max)]

battery_low(d) ==
  [i \in 1..len(d) |-> Lt(d.battery_volt_min[i], THRESHOLDS.battery_min)]

(* Indices of the rows of a locomotive, in table order (loco_mask) *)
loco_rows(d, loco) ==
  SelectSeq([i \in 1..len(d) |-> i], LAMBDA i : d.locoid[i] = loco)

(* df['locoid'].unique() *)
locos(d) == unique(d.locoid)

(* df['avg_speed'].diff().abs(): the difference from the previous row of the
   table, whatever its locoid *)
speed_change_ungrouped(d) ==
  [i \in 1..len(d) |->
     IF i = 1 \/ d.avg_speed[i] = NaN \/ d.avg_speed[i - 1] = NaN THEN NaN
     ELSE Abs(d.avg_speed[i] - d.avg_speed[i - 1])]

(* df.groupby('locoid')['avg_speed'].diff().abs(): the difference from the
   previous row of the same locoid in the order of the table *)
speed_change(d) ==
  [i \in 1..len(d) |->
     IF \A j \in 1..(i - 1) : d.locoid[j] # d.locoid[i] THEN NaN
     ELSE LET j == CHOOSE k \in 1..(i - 1) :
                     /\ d.locoid[k] = d.locoid[i]
                     /\ \A l \in (k + 1)..(i - 1) : d.locoid[l] # d.locoid[i]
          IN  IF d.avg_speed[i] = NaN \/ d.avg_speed[j] = NaN THEN NaN
              ELSE Abs(d.avg_speed[i] - d.avg_speed[j])]

speed_jump(d) ==
  [i \in 1..len(d) |-> Gt(d.speed_change[i], THRESHOLDS.speed_jump_max)]

pressure_low(d) ==
  [i \in 1..len(d) |-> Lt(d.pressure_tr1_min[i], THRESHOLDS.pressure_min)]

(* The median and the MAD taken over the rows of every locomotive *)
mad_anomaly_mask_pooled(d, loco, feature) ==
  LET series == IF feature \in DOMAIN d THEN d[feature] ELSE <<>>
  IN  IF feature \in DOMAIN d /\ Len(dropna(series)) > MAD_MIN_COUNT
      THEN LET mm == calculate_mad(dropna(series))
           IN  IF mm[2] > 0
               THEN [i \in 1..len(d) |->
                       /\ d.locoid[i] = loco
                       /\ ZScoreExceeds(d[feature][i], mm[1], mm[2])]
               ELSE [i \in 1..len(d) |-> FALSE]
      ELSE [i \in 1..len(d) |-> FALSE]

(* The pair evaluated from 10 values on, not from 11 *)
mad_anomaly_mask_from_ten(d, loco, feature) ==
  LET idx == loco_rows(d, loco)
      series == [k \in 1..Len(idx) |-> d[feature][idx[k]]]
  IN  IF feature \in DOMAIN d /\ Len(dropna(series)) >= MAD_MIN_COUNT
      THEN LET mm == calculate_mad(dropna(series))
           IN  IF mm[2] > 0
               THEN [i \in 1..len(d) |->
                       /\ d.locoid[i] = loco
                       /\ ZScoreExceeds(d[feature][i], mm[1], mm[2])]
               ELSE [i \in 1..len(d) |-> FALSE]
      ELSE [i \in 1..len(d) |-> FALSE]

(* The pair evaluated without the test mad > 0: the division by zero gives an
   infinite z-score to every value off the median *)
mad_anomaly_mask_unguarded(d, loco, feature) ==
  LET idx == loco_rows(d, loco)
      series == [k \in 1..Len(idx) |-> d[feature][idx[k]]]
  IN  IF feature \in DOMAIN d /\ Len(dropna(series)) > MAD_MIN_COUNT
      THEN LET mm == calculate_mad(dropna(series))
           IN  [i \in 1..len(d) |->
                  /\ d.locoid[i] = loco
                  /\ ZScoreExceeds(d[feature][i], mm[1], mm[2])]
      ELSE [i \in 1..len(d) |-> FALSE]

(* Layer 2, one (loco, feature) pair: the rows to flag (loco_mask & anomaly_mask) *)
mad_anomaly_mask(d, loco, feature) ==
  LET idx == loco_rows(d, loco)
      series == [k \in 1..Len(idx) |-> d[feature][idx[k]]]
  IN  IF feature \in DOMAIN d /\ Len(dropna(series)) > MAD_MIN_COUNT
      THEN LET mm == calculate_mad(dropna(series))
           IN  IF mm[2] > 0
               THEN [i \in 1..len(d) |->
                       /\ d.locoid[i] = loco
                       /\ ZScoreExceeds(d[feature][i], mm[1], mm[2])]
               ELSE [i \in 1..len(d) |-> FALSE]
      ELSE [i \in 1..len(d) |-> FALSE]

(* ml_features = [f for f in ANOMALY_FEATURES if f in df.columns] *)
ml_features(d) == SelectSeq(ANOMALY_FEATURES, LAMBDA f : f \in DOMAIN d)

(* The moving rows taken with pct_moving >= 0.5 *)
moving_rows_inclusive(d, loco) ==
  SelectSeq(loco_rows(d, loco),
            LAMBDA i : d.pct_moving[i] # NaN /\ d.pct_moving[i] >= MOVING_CUTOFF_PCT)

(* Indices of the moving rows of a locomotive (moving_mask) *)
moving_rows(d, loco) ==
  SelectSeq(loco_rows(d, loco), LAMBDA i : Gt(d.pct_moving[i], MOVING_CUTOFF_PCT))

(* loco_data_moving.median(): per ML feature, over the moving rows, doubled *)
moving_median(d, loco) ==
  LET idx == moving_rows(d, loco)
      fs == ml_features(d)
  IN  [c \in 1..Len(fs) |-> median_x2([k \in 1..Len(idx) |-> d[fs[c]][idx[k]]])]

(* Row i of loco_data_moving.fillna(med): values doubled; a feature with no
   value in any moving row stays NaN *)
fillna(d, i, fs, med) ==
  [c \in 1..Len(fs) |-> IF d[fs[c]][i] = NaN THEN med[c] ELSE 2 * d[fs[c]][i]]

(* The matrix handed to the scaler and the forest: one vector per moving row *)
imputed(d, loco) ==
  LET idx == moving_rows(d, loco)
      fs == ml_features(d)
      med == moving_median(d, loco)
  IN  [k \in 1..Len(idx) |-> fillna(d, idx[k], fs, med)]

has_nan(X) == ~(\A k \in DOMAIN X : \A c \in DOMAIN X[k] : X[k][c] # NaN)

(* df.loc[anomaly_indices, ...]: the moving rows of the locomotive whose vector
   is predicted an outlier *)
ml_anomaly_mask(d, loco, outliers) ==
  LET fs == ml_features(d)
      med == moving_median(d, loco)
      moving == Range(moving_rows(d, loco))
  IN  [i \in 1..len(d) |-> i \in moving /\ fillna(d, i, fs, med) \in outliers]

(* The score with the rule and the MAD weights exchanged *)
anomaly_score_swapped(rule, mad, ml) ==
  rule * WEIGHT_MAD + mad * WEIGHT_RULE + ml * WEIGHT_ML

(* The verdict for any positive score *)
is_anomaly_positive(score) == IF score >= WEIGHT_ML THEN 1 ELSE 0

(* Score fusion *)
anomaly_score(rule, mad, ml) == rule * WEIGHT_RULE + mad * WEIGHT_MAD + ml * WEIGHT_ML

is_anomaly(score) == IF score >= ANOMALY_MIN_SCORE THEN 1 ELSE 0

combine(d) ==
  LET score == [i \in 1..len(d) |->
                  anomaly_score(d.anomaly_rule[i], d.anomaly_mad[i], d.anomaly_ml[i])]
  IN  SetColumn(SetColumn(d, "anomaly_score", score),
                "is_anomaly", [i \in 1..len(d) |-> is_anomaly(score[i])])

(* The tags left as the layers wrote them, each followed by the delimiter *)
cleanup_unstripped(d) == d

cleanup(d) ==
  [d EXCEPT !.anomaly_types = [i \in 1..len(d) |-> rstrip(d.anomaly_types[i])]]

----------------------------------------------------------------------------
(* The run of detect_anomalies *)

(* run_full_pipeline is not running: detect_anomalies was called by itself *)
NoPipeline ==
  /\ stage = "none"
  /\ csv_files = <<>>
  /\ csv_i = 1
  /\ success_count = 0
  /\ success = "unset"
  /\ returned = "unset"
  /\ error = "none"
  /\ steps_run = <<>>

Init ==
  /\ NoPipeline
  /\ features \in Tables
  /\ df = NoTable
  /\ pc = "start"
  /\ loco_i = 1
  /\ feat_i = 1
  /\ forest = {}
  /\ artifact = NoTable
  /\ writes = 0
  /\ run = 1
  /\ prev = NoTable

(* An exception leaves detect_anomalies: nothing more of it runs *)
Raise == pc' = "failed" /\ df' = df

(* A layer 1 rule on column col; a column that is absent raises KeyError *)
RuleStep(at, col, mask, tag, next) ==
  /\ pc = at
  /\ IF col \in DOMAIN df
     THEN df' = Mark(df, mask, "anomaly_rule", tag) /\ pc' = next
     ELSE Raise
  /\ UNCHANGED <<features, loco_i, feat_i, forest, artifact, writes, run, prev, pipe>>

Load ==
  /\ pc = "start"
  /\ IF "locoid" \in DOMAIN features
     THEN df' = LoadFrame(features) /\ pc' = "rule1"
     ELSE df' = features /\ pc' = "failed"
  /\ UNCHANGED <<features, loco_i, feat_i, forest, artifact, writes, run, prev, pipe>>

HighTemp == RuleStep("rule1", "temp_motor1_1_max", temp_high(df), "HIGH_TEMP", "rule2")

TempSpike ==
  RuleStep("rule2", "temp_motor1_1_rate", temp_rate_high(df), "TEMP_SPIKE", "rule3")

CurrentUnstable ==
  RuleStep("rule3", "current_u_std", current_unstable(df), "CURRENT_UNSTABLE", "rule4")

LowBattery ==
  RuleStep("rule4", "battery_volt_min", battery_low(df), "LOW_BATTERY", "rule5")

SpeedJump ==
  /\ pc = "rule5"
  /\ IF "avg_speed" \in DOMAIN df
     THEN LET d1 == SetColumn(df, "speed_change", speed_change(df))
          IN  df' = Mark(d1, speed_jump(d1), "anomaly_rule", "SPEED_JUMP") /\ pc' = "rule6"
     ELSE Raise
  /\ UNCHANGED <<features, loco_i, feat_i, forest, artifact, writes, run, prev, pipe>>

LowPressure ==
  RuleStep("rule6", "pressure_tr1_min", pressure_low(df), "LOW_PRESSURE", "mad")

(* Layer 2: one iteration of the inner loop over mad_features *)
MadStep ==
  /\ pc = "mad"
  /\ loco_i <= Len(locos(df))
  /\ LET loco == locos(df)[loco_i]
         feature == mad_features[feat_i]
     IN  df' = Mark(df, mad_anomaly_mask(df, loco, feature), "anomaly_mad", MadTag(feature))
  /\ IF feat_i < Len(mad_features)
     THEN feat_i' = feat_i + 1 /\ loco_i' = loco_i
     ELSE feat_i' = 1 /\ loco_i' = loco_i + 1
  /\ UNCHANGED <<features, pc, forest, artifact, writes, run, prev, pipe>>

MadEnd ==
  /\ pc = "mad"
  /\ loco_i > Len(locos(df))
  /\ pc' = "ml"
  /\ loco_i' = 1
  /\ UNCHANGED <<features, df, feat_i, forest, artifact, writes, run, prev, pipe>>

(* The most rows IsolationForest(contamination=c).fit_predict can mark -1 among
   n: those whose score lies strictly below the c-quantile of the n scores *)
MaxOutlierRows(n) == ((n - 1) * CONTAMINATION_PCT) \div 100 + 1

(* The forest without random_state: what it predicts for a matrix is drawn
   anew at every fit *)
FitPredict_unseeded(X, outliers) ==
  /\ outliers \in SUBSET Range(X)
  /\ Cardinality({k \in DOMAIN X : X[k] \in outliers}) <= MaxOutlierRows(Len(X))
  /\ forest' = forest \cup {[X |-> X, out |-> outliers]}

(* StandardScaler.fit_transform then IsolationForest(random_state=42).fit_predict:
   a function of the imputed matrix X, not known here.  forest records the value
   taken for each X it was applied to, so that it is a function.  Equal vectors of
   one X get equal predictions. *)
FitPredict(X, outliers) ==
  /\ outliers \in SUBSET Range(X)
  /\ Cardinality({k \in DOMAIN X : X[k] \in outliers}) <= MaxOutlierRows(Len(X))
  /\ \A e \in forest : e.X = X => e.out = outliers
  /\ forest' = forest \cup {[X |-> X, out |-> outliers]}

(* Layer 3: one iteration of the loop over locomotives *)
MlStep ==
  /\ pc = "ml"
  /\ loco_i <= Len(locos(df))
  /\ LET loco == locos(df)[loco_i]
         X == imputed(df, loco)
     IN  IF "pct_moving" \notin DOMAIN df
         THEN Raise /\ loco_i' = loco_i /\ forest' = forest
         ELSE IF Len(moving_rows(df, loco)) > ML_MIN_ROWS
         THEN \/ /\ Len(ml_features(df)) = 0 \/ has_nan(X)
                 /\ Raise /\ loco_i' = loco_i /\ forest' = forest
              \/ /\ Len(ml_features(df)) > 0
                 /\ \E outliers \in SUBSET Range(X) :
                      /\ FitPredict(X, outliers)
                      /\ df' = Mark(df, ml_anomaly_mask(df, loco, outliers),
                                    "anomaly_ml", MLTag)
                 /\ pc' = pc /\ loco_i' = loco_i + 1
         ELSE df' = df /\ pc' = pc /\ loco_i' = loco_i + 1 /\ forest' = forest
  /\ UNCHANGED <<features, feat_i, artifact, writes, run, prev, pipe>>

MlEnd ==
  /\ pc = "ml"
  /\ loco_i > Len(locos(df))
  /\ pc' = "combine"
  /\ loco_i' = 1
  /\ UNCHANGED <<features, df, feat_i, forest, artifact, writes, run, prev, pipe>>

Combine ==
  /\ pc = "combine"
  /\ df' = combine(df)
  /\ pc' = "cleanup"
  /\ UNCHANGED <<features, loco_i, feat_i, forest, artifact, writes, run, prev, pipe>>

Cleanup ==
  /\ pc = "cleanup"
  /\ df' = cleanup(df)
  /\ pc' = "save"
  /\ UNCHANGED <<features, loco_i, feat_i, forest, artifact, writes, run, prev, pipe>>

(* The frame also written once the rules have run, before the other layers *)
Save_checkpoint ==
  \/ /\ pc = "mad"
     /\ writes = 0
     /\ artifact' = df
     /\ writes' = writes + 1
     /\ UNCHANGED <<features, df, pc, loco_i, feat_i, forest, run, prev, pipe>>
  \/ /\ pc = "save"
     /\ artifact' = df
     /\ writes' = writes + 1
     /\ pc' = "done"
     /\ UNCHANGED <<features, df, loco_i, feat_i, forest, run, prev, pipe>>

(* df.to_parquet(output_path, ...), and the frame is returned *)
Save ==
  /\ pc = "save"
  /\ artifact' = df
  /\ writes' = writes + 1
  /\ pc' = "done"
  /\ UNCHANGED <<features, df, loco_i, feat_i, forest, run, prev, pipe>>

Next ==
  \/ Load \/ HighTemp \/ TempSpike \/ CurrentUnstable \/ LowBattery \/ SpeedJump
  \/ LowPressure \/ MadStep \/ MadEnd \/ MlStep \/ MlEnd \/ Combine \/ Cleanup \/ Save

Spec == Init /\ [][Next]_vars

----------------------------------------------------------------------------
(* A second run of detect_anomalies, after the first has returned *)

(* The input rows of a unit, in table order *)
UnitInput(t, u) ==
  LET idx == loco_rows(t, u)
  IN  [k \in 1..Len(idx) |-> [c \in InputCols \cap DOMAIN t |-> t[c][idx[k]]]]

Units(t) == Range(t.locoid)

InitRerun ==
  /\ NoPipeline
  /\ features \in RerunTables
  /\ df = NoTable
  /\ pc = "start"
  /\ loco_i = 1
  /\ feat_i = 1
  /\ forest = {}
  /\ artifact = NoTable
  /\ writes = 0
  /\ run = 1
  /\ prev = NoTable

(* detect_anomalies is called again, on the same table or on one that agrees
   with it on the rows of unit 1; prev keeps what the first run returned *)
Rerun ==
  /\ pc = "done"
  /\ run = 1
  /\ \E t \in RerunTables :
       /\ UnitInput(t, 1) = UnitInput(features, 1)
       /\ features' = t
  /\ prev' = df
  /\ df' = NoTable
  /\ pc' = "start"
  /\ loco_i' = 1
  /\ feat_i' = 1
  /\ run' = 2
  /\ UNCHANGED <<forest, artifact, writes, pipe>>

NextRerun == Next \/ Rerun

SpecRerun == InitRerun /\ [][NextRerun]_vars

----------------------------------------------------------------------------
(* Properties of the table detect_anomalies returns and persists *)

Done == pc = "done"

(* The tags of row i *)
TagSet(d, i) == Range(d.anomaly_types[i]) \ {DELIM}

(* How often a token occurs in the tag string of row i *)
Occurrences(d, i, tok) ==
  Cardinality({k \in DOMAIN d.anomaly_types[i] : d.anomaly_types[i][k] = tok})

Rows == 1..len(df)

(* C1: in every row of the table returned and persisted, each of the three
   layer flags is 0 or 1 and the score is 3 * rule + 2 * MAD + 1 * ML, a number
   from 0 to 6 *)
C1_ScoreIsWeightedSum ==
  Done =>
    /\ artifact = df
    /\ \A i \in Rows :
         /\ df.anomaly_rule[i] \in {0, 1}
         /\ df.anomaly_mad[i] \in {0, 1}
         /\ df.anomaly_ml[i] \in {0, 1}
         /\ df.anomaly_score[i] =
              3 * df.anomaly_rule[i] + 2 * df.anomaly_mad[i] + 1 * df.anomaly_ml[i]
         /\ df.anomaly_score[i] \in 0..6

(* a finished run with a row that all three layers flagged: its score is 6 *)
C1_Witness ==
  /\ Done
  /\ \E i \in Rows :
       /\ df.anomaly_rule[i] = 1 /\ df.anomaly_mad[i] = 1 /\ df.anomaly_ml[i] = 1
       /\ df.anomaly_score[i] = 6

(* C2: in every output row is_anomaly is 1 exactly when the score is at least 2:
   a row only the ML layer flagged is no anomaly, a row only the MAD layer
   flagged is one, and so is every row the rules flagged *)
C2_VerdictFromScore ==
  Done =>
    \A i \in Rows :
      /\ df.is_anomaly[i] \in {0, 1}
      /\ df.is_anomaly[i] = 1 <=> df.anomaly_score[i] >= 2
      /\ (df.anomaly_rule[i] = 0 /\ df.anomaly_mad[i] = 0 /\ df.anomaly_ml[i] = 1)
           => df.is_anomaly[i] = 0
      /\ (df.anomaly_rule[i] = 0 /\ df.anomaly_mad[i] = 1 /\ df.anomaly_ml[i] = 0)
           => df.is_anomaly[i] = 1
      /\ df.anomaly_rule[i] = 1 => df.is_anomaly[i] = 1

(* a finished run with a row only the ML layer flagged, of score 1 and no anomaly *)
C2_Witness ==
  /\ Done
  /\ \E i \in Rows :
       /\ df.anomaly_rule[i] = 0 /\ df.anomaly_mad[i] = 0 /\ df.anomaly_ml[i] = 1
       /\ df.anomaly_score[i] = 1
       /\ df.is_anomaly[i] = 0

(* The six threshold predicates of the rule layer, on row i of the input table t *)
Above(x, limit) == x # NaN /\ x > limit

Below(x, limit) == x # NaN /\ x < limit

(* The row of the same unit that precedes row i in the table, or 0 *)
PreviousOfUnit(t, i) ==
  IF \A j \in 1..(i - 1) : t.locoid[j] # t.locoid[i] THEN 0
  ELSE CHOOSE j \in 1..(i - 1) :
         /\ t.locoid[j] = t.locoid[i]
         /\ \A k \in (j + 1)..(i - 1) : t.locoid[k] # t.locoid[i]

RuleHolds(t, i, tag) ==
  CASE tag = "HIGH_TEMP" -> Above(t.temp_motor1_1_max[i], THRESHOLDS.temp_motor_max)
    [] tag = "TEMP_SPIKE" ->
         \/ Above(t.temp_motor1_1_rate[i], THRESHOLDS.temp_motor_rate_max)
         \/ Below(t.temp_motor1_1_rate[i], -THRESHOLDS.temp_motor_rate_max)
    [] tag = "CURRENT_UNSTABLE" -> Above(t.current_u_std[i], THRESHOLDS.current_std_max)
    [] tag = "LOW_BATTERY" -> Below(t.battery_volt_min[i], THRESHOLDS.battery_min)
    [] tag = "SPEED_JUMP" ->
         LET j == PreviousOfUnit(t, i)
         IN  /\ j # 0
             /\ t.avg_speed[i] # NaN
             /\ t.avg_speed[j] # NaN
             /\ \/ t.avg_speed[i] - t.avg_speed[j] > THRESHOLDS.speed_jump_max
                \/ t.avg_speed[j] - t.avg_speed[i] > THRESHOLDS.speed_jump_max
    [] tag = "LOW_PRESSURE" -> Below(t.pressure_tr1_min[i], THRESHOLDS.pressure_min)

(* The input column a single-row rule reads *)
RuleColumn(tag) ==
  CASE tag = "HIGH_TEMP" -> "temp_motor1_1_max"
    [] tag = "TEMP_SPIKE" -> "temp_motor1_1_rate"
    [] tag = "CURRENT_UNSTABLE" -> "current_u_std"
    [] tag = "LOW_BATTERY" -> "battery_volt_min"
    [] tag = "SPEED_JUMP" -> "avg_speed"
    [] tag = "LOW_PRESSURE" -> "pressure_tr1_min"

(* C3: in every output row the rule flag is 1 exactly when one of the six
   threshold predicates holds of the input row, each predicate that holds puts
   its own tag there once and none that does not hold does, a predicate on a
   missing value does not hold, and a row whose temperature maximum is above
   the limit has the rule flag, the tag HIGH_TEMP, a score of at least 3 and
   is_anomaly = 1 *)
C3_RuleFlagIffPredicate ==
  Done =>
    \A i \in Rows :
      /\ df.anomaly_rule[i] = 1 <=> \E tag \in RuleTags : RuleHolds(features, i, tag)
      /\ \A tag \in RuleTags :
           /\ tag \in TagSet(df, i) <=> RuleHolds(features, i, tag)
           /\ Occurrences(df, i, tag) <= 1
           /\ features[RuleColumn(tag)][i] = NaN => tag \notin TagSet(df, i)
      /\ Above(features.temp_motor1_1_max[i], THRESHOLDS.temp_motor_max) =>
           /\ df.anomaly_rule[i] = 1
           /\ "HIGH_TEMP" \in TagSet(df, i)
           /\ df.anomaly_score[i] >= 3
           /\ df.is_anomaly[i] = 1

(* a finished run with a row too hot, its rate falling too fast and its current
   spread missing *)
C3_Witness ==
  /\ Done
  /\ \E i \in Rows :
       /\ Above(features.temp_motor1_1_max[i], THRESHOLDS.temp_motor_max)
       /\ Below(features.temp_motor1_1_rate[i], -THRESHOLDS.temp_motor_rate_max)
       /\ features.current_u_std[i] = NaN
       /\ TagSet(df, i) = {"HIGH_TEMP", "TEMP_SPIKE"}
       /\ df.anomaly_score[i] = 3

(* Row i holds the first temporal bucket of its unit in the table t *)
FirstBucket(t, i) == \A j \in 1..len(t) : t.locoid[j] = t.locoid[i] => t.ts[i] <= t.ts[j]

(* C4, as claimed: the row of the first temporal bucket of a unit never gets
   the tag TEMP_SPIKE nor the tag SPEED_JUMP, whatever the values of its
   columns, the supplied rate among them, and whatever the order of the rows *)
C4_FirstBucketNeverTagged ==
  Done =>
    \A i \in Rows :
      FirstBucket(features, i) =>
        "TEMP_SPIKE" \notin TagSet(df, i) /\ "SPEED_JUMP" \notin TagSet(df, i)

(* C4, amended: the row of the first temporal bucket of a unit does not get
   TEMP_SPIKE when the rate supplied for it is missing, and does not get
   SPEED_JUMP when no row of its unit precedes it in the table; a first bucket
   with a rate supplied is judged by that rate, and one that follows a row of
   its unit in the table by the difference of their speeds *)
C4_FirstBucketAsSupplied ==
  Done =>
    \A i \in Rows :
      FirstBucket(features, i) =>
        /\ features.temp_motor1_1_rate[i] = NaN => "TEMP_SPIKE" \notin TagSet(df, i)
        /\ PreviousOfUnit(features, i) = 0 => "SPEED_JUMP" \notin TagSet(df, i)
        /\ features.temp_motor1_1_rate[i] # NaN =>
             ("TEMP_SPIKE" \in TagSet(df, i) <=> RuleHolds(features, i, "TEMP_SPIKE"))
        /\ PreviousOfUnit(features, i) # 0 =>
             ("SPEED_JUMP" \in TagSet(df, i) <=> RuleHolds(features, i, "SPEED_JUMP"))

(* a finished run over a table in temporal order: the first bucket of a unit,
   its rate missing and its speed beyond the limit, has no tag, and the next
   bucket of the unit has SPEED_JUMP *)
C4_Witness ==
  /\ Done
  /\ \E i \in Rows, j \in Rows :
       /\ FirstBucket(features, i)
       /\ PreviousOfUnit(features, i) = 0
       /\ features.temp_motor1_1_rate[i] = NaN
       /\ Above(features.avg_speed[i], THRESHOLDS.speed_jump_max)
       /\ TagSet(df, i) = {}
       /\ PreviousOfUnit(features, j) = i
       /\ "SPEED_JUMP" \in TagSet(df, j)

(* The rows of unit u in table t that have a value of feature f *)
GroupRows(t, u, f) ==
  IF f \in DOMAIN t THEN {j \in 1..len(t) : t.locoid[j] = u /\ t[f][j] # NaN} ELSE {}

(* Twice the median of the values val[j], j in rows, by rank *)
GroupMedian2(val, rows) ==
  LET n == Cardinality(rows)
      ranked(k) == val[CHOOSE j \in rows :
                         /\ Cardinality({l \in rows : val[l] < val[j]}) < k
                         /\ k <= Cardinality({l \in rows : val[l] <= val[j]})]
  IN  IF n % 2 = 1 THEN 2 * ranked((n + 1) \div 2)
      ELSE ranked(n \div 2) + ranked(n \div 2 + 1)

(* Four times the median absolute deviation of the values val[j], j in rows *)
GroupMad4(val, rows) ==
  LET m2 == GroupMedian2(val, rows)
  IN  GroupMedian2([j \in rows |-> IF 2 * val[j] >= m2 THEN 2 * val[j] - m2
                                   ELSE m2 - 2 * val[j]], rows)

(* |x - median| / (1.4826 * MAD) > 3.5, that is 2 |2x - 2 median| > 5.1891 * 4 MAD *)
ZAbove(x, m2, mad4) ==
  LET dev2 == IF 2 * x >= m2 THEN 2 * x - m2 ELSE m2 - 2 * x
  IN  2 * dev2 * 10000 > 51891 * mad4

(* The rows of unit u the MAD layer is to flag for feature f *)
MadExpected(t, u, f) ==
  LET rows == GroupRows(t, u, f)
  IN  IF Cardinality(rows) > 10
      THEN LET m2 == GroupMedian2(t[f], rows)
               mad4 == GroupMad4(t[f], rows)
           IN  IF mad4 > 0 THEN {i \in rows : ZAbove(t[f][i], m2, mad4)} ELSE {}
      ELSE {}

(* The rows that carry a tag *)
Tagged(d, tag) == {i \in 1..len(d) : tag \in TagSet(d, i)}

(* C5: for every unit and every MAD feature, the rows of the unit that get the
   MAD tag of the feature are those with a value whose modified z-score is
   above 3.5, provided the unit has more than 10 values of the feature and
   their MAD is above 0; a pair with 10 values or fewer, or with MAD 0, flags
   no row; a row without a value is never flagged; and no step of the MAD
   layer ends the run in an error *)
C5_MadTagIffOutlier ==
  /\ [](Done =>
         \A u \in Units(features) : \A k \in 1..Len(mad_features) :
           {i \in Tagged(df, MadTag(mad_features[k])) : features.locoid[i] = u}
             = MadExpected(features, u, mad_features[k]))
  /\ [][pc = "mad" => pc' \in {"mad", "ml"}]_vars

(* a finished run where a unit has 11 values of one feature and a row beyond
   the threshold is tagged for it, while the same row has no value of a
   feature of which the unit has 10 values, and is not tagged for that *)
C5_Witness ==
  /\ Done
  /\ \E i \in Rows :
       LET u == features.locoid[i]
       IN  /\ Cardinality(GroupRows(features, u, "temp_motor1_1_mean")) = 11
           /\ "MAD_TEMP_MOTOR1_1_MEAN" \in TagSet(df, i)
           /\ Cardinality(GroupRows(features, u, "pressure_tr1_mean")) = 10
           /\ features.pressure_tr1_mean[i] = NaN
           /\ "MAD_PRESSURE_TR1_MEAN" \notin TagSet(df, i)
           /\ df.anomaly_mad[i] = 1

(* The values of feature f in the group rows all equal one constant, except
   that of row o *)
ConstantExcept(t, f, rows, o) ==
  /\ o \in rows
  /\ rows # {o}
  /\ \E c \in {t[f][j] : j \in rows \ {o}} :
       /\ \A j \in rows \ {o} : t[f][j] = c
       /\ t[f][o] # c

(* C6, as claimed: a unit-feature group of more than 10 values, all equal to a
   constant except one far outlier, has MAD > 0, and exactly the row of the
   outlier gets the MAD flag of the feature *)
C6_OutlierOfConstantFlagged ==
  Done =>
    \A u \in Units(features) : \A k \in 1..Len(mad_features) :
      LET f == mad_features[k]
          rows == GroupRows(features, u, f)
      IN  \A o \in rows :
            (Cardinality(rows) > 10 /\ ConstantExcept(features, f, rows, o)) =>
              /\ GroupMad4(features[f], rows) > 0
              /\ {i \in Tagged(df, MadTag(f)) : features.locoid[i] = u} = {o}

(* C6, amended: in a unit-feature group of more than 10 values that all equal
   a constant except one, MAD is 0, the pair is skipped and no row of the
   unit, the outlier included, gets the MAD flag of the feature; in a group
   of more than 10 values with MAD > 0 in which one value alone has a
   modified z-score above the threshold, exactly its row gets the flag *)
C6_ConstantGroupSkipped ==
  Done =>
    \A u \in Units(features) : \A k \in 1..Len(mad_features) :
      LET f == mad_features[k]
          rows == GroupRows(features, u, f)
          flagged == {i \in Tagged(df, MadTag(f)) : features.locoid[i] = u}
      IN  Cardinality(rows) > 10 =>
            LET m2 == GroupMedian2(features[f], rows)
                mad4 == GroupMad4(features[f], rows)
            IN  \A o \in rows :
                  /\ ConstantExcept(features, f, rows, o) => mad4 = 0 /\ flagged = {}
                  /\ ( /\ mad4 > 0
                       /\ \A j \in rows : ZAbove(features[f][j], m2, mad4) <=> j = o )
                     => /\ flagged = {o}
                        /\ df.anomaly_mad[o] = 1

(* a finished run where one row is the outlier of a constant group of 11
   values of one feature, untagged for it, and the outlier of a group of 11
   varying values of another, tagged for that *)
C6_Witness ==
  /\ Done
  /\ \E o \in Rows :
       LET u == features.locoid[o]
           rc == GroupRows(features, u, "current_u_mean")
           rt == GroupRows(features, u, "temp_motor1_1_mean")
       IN  /\ Cardinality(rc) = 11
           /\ ConstantExcept(features, "current_u_mean", rc, o)
           /\ Tagged(df, "MAD_CURRENT_U_MEAN") = {}
           /\ Cardinality(rt) = 11
           /\ GroupMad4(features.temp_motor1_1_mean, rt) > 0
           /\ Tagged(df, "MAD_TEMP_MOTOR1_1_MEAN") = {o}

(* The rows of unit u in table t that are moving: pct_moving above 0.5 *)
MovingRows(t, u) ==
  {j \in 1..len(t) : t.locoid[j] = u /\ t.pct_moving[j] # NaN /\ t.pct_moving[j] > 50}

(* C7: a row has the ML flag only if its pct_moving is above 0.5 and its unit
   has more than 50 such rows: a stationary row, a row without pct_moving and
   every row of a unit with 50 moving rows or fewer never has it, and passing
   over such a unit changes nothing and is no error *)
C7_MlOnlyMovingAndDense ==
  /\ [](("pct_moving" \in DOMAIN df /\ "anomaly_ml" \in DOMAIN df) =>
         \A i \in Rows :
           df.anomaly_ml[i] = 1 =>
             /\ i \in MovingRows(features, features.locoid[i])
             /\ Cardinality(MovingRows(features, features.locoid[i])) > 50)
  /\ [][(/\ pc = "ml"
         /\ loco_i <= Len(locos(df))
         /\ "pct_moving" \in DOMAIN df
         /\ Cardinality(MovingRows(df, locos(df)[loco_i])) <= 50)
        => (pc' = "ml" /\ df' = df /\ loco_i' = loco_i + 1)]_vars

(* a finished run where a unit has exactly 51 moving rows and one of them has
   the ML flag *)
C7_Witness ==
  /\ Done
  /\ \E i \in Rows :
       /\ df.anomaly_ml[i] = 1
       /\ Cardinality(MovingRows(features, features.locoid[i])) = 51
       /\ Cardinality({j \in Rows : features.locoid[j] = features.locoid[i]}) = 51

(* C8: in every output row the tags agree with the flags, both ways: the rule
   flag is 1 exactly when one of the six rule tags is there, the MAD flag
   exactly when a MAD tag is, the ML flag exactly when the ML tag is; there is
   no other tag, and a row with the three flags 0 has the empty tag string *)
C8_TagsAgreeWithFlags ==
  Done =>
    \A i \in Rows :
      /\ df.anomaly_rule[i] = 1 <=> TagSet(df, i) \cap RuleTags # {}
      /\ df.anomaly_mad[i] = 1 <=> TagSet(df, i) \cap MadTags # {}
      /\ df.anomaly_ml[i] = 1 <=> MLTag \in TagSet(df, i)
      /\ TagSet(df, i) \subseteq RuleTags \cup MadTags \cup {MLTag}
      /\ (df.anomaly_rule[i] = 0 /\ df.anomaly_mad[i] = 0 /\ df.anomaly_ml[i] = 0)
           => df.anomaly_types[i] = <<>>

(* a finished run with a row of no flag and no tag, and a row the MAD and the ML
   layer flagged and the rules did not, with the tags of these two *)
C8_Witness ==
  /\ Done
  /\ \E i \in Rows :
       /\ df.anomaly_rule[i] = 0 /\ df.anomaly_mad[i] = 0 /\ df.anomaly_ml[i] = 0
       /\ df.anomaly_types[i] = <<>>
  /\ \E i \in Rows :
       /\ df.anomaly_rule[i] = 0 /\ df.anomaly_mad[i] = 1 /\ df.anomaly_ml[i] = 1
       /\ TagSet(df, i) = {"MAD_TEMP_MOTOR1_1_MEAN", MLTag}

(* C9: in every output row the tag string neither begins nor ends with the
   delimiter, holds tags and delimiters in turn, and holds no tag twice,
   whatever rules, MAD features and ML outcome put tags there *)
C9_TagStringWellFormed ==
  Done =>
    \A i \in Rows :
      LET s == df.anomaly_types[i]
      IN  /\ s # <<>> => s[1] # DELIM /\ s[Len(s)] # DELIM
          /\ \A k \in DOMAIN s : s[k] = DELIM <=> k % 2 = 0
          /\ \A tag \in TagSet(df, i) : Occurrences(df, i, tag) = 1

(* a finished run with a row tagged by a rule and by the MAD layer for each of
   its three features: four tags and three delimiters between them *)
C9_Witness ==
  /\ Done
  /\ \E i \in Rows :
       /\ "HIGH_TEMP" \in TagSet(df, i)
       /\ MadTags \subseteq TagSet(df, i)
       /\ Len(df.anomaly_types[i]) = 7

(* What detect_anomalies computes for the rows of unit u, in table order: the
   speed change, the three flags, the tags, the score and the verdict *)
ComputedCols ==
  {"speed_change", "anomaly_rule", "anomaly_mad", "anomaly_ml", "anomaly_types",
   "anomaly_score", "is_anomaly"}

UnitOutput(d, u) ==
  LET idx == loco_rows(d, u)
  IN  [k \in 1..Len(idx) |-> [c \in ComputedCols |-> d[c][idx[k]]]]

(* C10: when detect_anomalies has run on two tables, every unit whose rows are
   the same in both, in the same relative order, has the same speed changes,
   flags, tags, scores and verdicts in both results, whatever the rows of the
   other units are and wherever they stand in the table *)
C10_UnitsIsolated ==
  (Done /\ run = 2) =>
    \A u \in Units(prev) \cap Units(features) :
      UnitInput(prev, u) = UnitInput(features, u) => UnitOutput(prev, u) = UnitOutput(df, u)

(* two finished runs on tables that share the rows of unit 1, a row of which the
   MAD and the ML layer flagged, and differ in the number, the place and the
   results of the rows of unit 2 *)
C10_Witness ==
  /\ Done
  /\ run = 2
  /\ UnitInput(prev, 1) = UnitInput(features, 1)
  /\ \E k \in DOMAIN UnitOutput(df, 1) :
       UnitOutput(df, 1)[k].anomaly_mad = 1 /\ UnitOutput(df, 1)[k].anomaly_ml = 1
  /\ Len(UnitInput(prev, 2)) # Len(UnitInput(features, 2))
  /\ prev.locoid[1] # features.locoid[1]
  /\ \E k \in DOMAIN UnitOutput(prev, 2) : UnitOutput(prev, 2)[k].anomaly_score > 0
  /\ \A k \in DOMAIN UnitOutput(df, 2) : UnitOutput(df, 2)[k].anomaly_score = 0

(* The second run reads the table the first run read *)
SameInput == \A c \in InputCols : prev[c] = features[c]

(* C11: a second run of detect_anomalies on the same table returns and writes
   the same frame as the first, flags, tags, scores and verdicts included; it
   starts from the input table with every flag 0 and every tag string empty,
   whatever the first run left behind *)
C11_RerunIdentical ==
  /\ (run = 2 /\ pc = "rule1") =>
       \A i \in Rows :
         /\ df.anomaly_rule[i] = 0 /\ df.anomaly_mad[i] = 0 /\ df.anomaly_ml[i] = 0
         /\ df.anomaly_types[i] = <<>>
  /\ (Done /\ run = 2 /\ SameInput) => (df = prev /\ artifact = df)

(* two finished runs on the same table, with a row that the MAD layer and the
   forest flagged in both *)
C11_Witness ==
  /\ Done
  /\ run = 2
  /\ SameInput
  /\ writes = 2
  /\ \E i \in Rows :
       /\ df.anomaly_mad[i] = 1 /\ df.anomaly_ml[i] = 1
       /\ prev.anomaly_mad[i] = 1 /\ prev.anomaly_ml[i] = 1

(* The columns the rules read, and the features of the MAD and the ML lists *)
RuleCols == {RuleColumn(tag) : tag \in RuleTags}

RequiredCols == RuleCols \cup Range(mad_features) \cup Range(ANOMALY_FEATURES)

(* No flag of the frame is set *)
NoFlagSet(d) ==
  \A c \in {"anomaly_rule", "anomaly_mad", "anomaly_ml"} \cap DOMAIN d :
    \A i \in 1..len(d) : d[c][i] = 0

(* C12, as claimed: on a table that lacks a column the rules read or a feature
   of the MAD or the ML list, the run fails before any layer has run: no rule
   is evaluated, no flag is set, nothing is written, and the run never
   completes with the column passed over *)
C12_SchemaErrorBeforeLayers ==
  RequiredCols \ DOMAIN features # {} =>
    /\ pc \in {"start", "rule1", "failed"}
    /\ NoFlagSet(df)
    /\ writes = 0

(* C13, as claimed: a failure to fit or to predict for one unit does not end
   the run: the ML layer passes over that unit with its rows unflagged and
   goes on to the next unit, the rule and the MAD flags stay as they are, and
   the run goes on to the fusion and the write *)
C13_MlFailureIsolated ==
  [][(pc = "ml" /\ "pct_moving" \in DOMAIN df)
       => /\ pc' \in {"ml", "combine"}
          /\ df'.anomaly_rule = df.anomaly_rule
          /\ df'.anomaly_mad = df.anomaly_mad]_vars

(* The frame d went through the fusion: it has a score and a verdict for every
   row, and no tag string ends with the delimiter *)
Fused(d) ==
  /\ {"anomaly_score", "is_anomaly"} \subseteq DOMAIN d
  /\ \A i \in 1..len(d) :
       /\ d.anomaly_score[i] = 3 * d.anomaly_rule[i] + 2 * d.anomaly_mad[i] + d.anomaly_ml[i]
       /\ d.anomaly_types[i] = <<>> \/ d.anomaly_types[i][Len(d.anomaly_types[i])] # DELIM

(* C14: a run writes its output once, as its last step, after the three layers
   and the fusion: until then, and in a run that an error ends in any layer,
   nothing is written; what is written is the fused frame *)
C14_WrittenOnceAtEnd ==
  /\ [](/\ writes = IF Done THEN 1 ELSE 0
        /\ ~Done => artifact = NoTable
        /\ Done => artifact = df /\ Fused(artifact))
  /\ [][writes' # writes =>
          /\ pc = "save" /\ pc' = "done"
          /\ Fused(df)
          /\ artifact' = df
          /\ writes' = writes + 1]_vars

(* a finished run over two units, rows of both flagged, its one write made *)
C14_Witness ==
  /\ Done
  /\ writes = 1
  /\ artifact = df
  /\ \A u \in 1..2 : \E i \in Rows : df.locoid[i] = u /\ df.anomaly_score[i] > 0

(* C14, the run an error ends: flags are set in the frame and nothing is written *)
C14_AbortWitness ==
  /\ pc = "failed"
  /\ "anomaly_rule" \in DOMAIN df
  /\ \E i \in Rows : df.anomaly_rule[i] = 1
  /\ writes = 0
  /\ artifact = NoTable

(* The six columns the output is to add to the input *)
AddedCols ==
  {"anomaly_rule", "anomaly_mad", "anomaly_ml", "anomaly_types", "anomaly_score",
   "is_anomaly"}

(* C15, as claimed: the table written is the input table with exactly six
   columns added, the three flags, the tags, the score and the verdict: no
   other column is added, every input column keeps its values, and the rows
   are those of the input in their order *)
C15_InputPlusSixColumns ==
  Done =>
    /\ DOMAIN artifact = DOMAIN features \cup AddedCols
    /\ \A c \in DOMAIN features : artifact[c] = features[c]

(* C15, the part that holds: the table written has the six columns, and every
   input column with the values and the rows of the input in their order *)
C15_InputKept ==
  Done =>
    /\ DOMAIN features \cup AddedCols \subseteq DOMAIN artifact
    /\ \A c \in DOMAIN features : artifact[c] = features[c]

----------------------------------------------------------------------------
(* run_full_pipeline (src/run_pipeline.py) *)

MaxCsvFiles == 4

(* The CSV files of INPUT_DIR, each one that converts or one whose conversion
   fails; sorted(glob(...)) fixes their order *)
CsvOutcomes == {"converts", "fails"}

CsvFileLists ==
  UNION {[1..n -> CsvOutcomes] : n \in 0..MaxCsvFiles}

(* bool(value), for the values a stage returns *)
truthy(value) == value \notin {"None", "False"}

InitPipeline ==
  /\ features = NoTable
  /\ df = NoTable
  /\ pc = "idle"
  /\ loco_i = 1
  /\ feat_i = 1
  /\ forest = {}
  /\ artifact = NoTable
  /\ writes = 0
  /\ run = 1
  /\ prev = NoTable
  /\ stage = "step1"
  /\ csv_files \in CsvFileLists
  /\ csv_i = 1
  /\ success_count = 0
  /\ success = "unset"
  /\ returned = "unset"
  /\ error = "none"
  /\ steps_run = <<>>

(* convert_all_csvs: one iteration of the loop over csv_files;
   convert_csv_to_parquet returns True, or catches its error and returns False *)
ConvertCsv ==
  /\ stage = "step1"
  /\ csv_i <= Len(csv_files)
  /\ success_count' = IF csv_files[csv_i] = "converts" THEN success_count + 1
                      ELSE success_count
  /\ csv_i' = csv_i + 1
  /\ UNCHANGED <<detect, stage, csv_files, success, returned, error, steps_run>>

(* convert_all_csvs returns: no CSV file was found, or the loop has ended *)
ConvertAllReturns ==
  /\ stage = "step1"
  /\ csv_i > Len(csv_files)
  /\ steps_run' = Append(steps_run, "convert_all_csvs")
  /\ stage' = "step2"
  /\ UNCHANGED <<detect, csv_files, csv_i, success_count, success, returned, error>>

(* create_aggregated_features runs to its end: it has no return statement, so
   the caller receives None *)
FeaturesComplete ==
  /\ stage = "step2"
  /\ success' = "None"
  /\ steps_run' = Append(steps_run, "create_aggregated_features")
  /\ stage' = "check"
  /\ UNCHANGED <<detect, csv_files, csv_i, success_count, returned, error>>

(* create_aggregated_features re-raises an error of the query (for instance no
   Parquet file to read); run_full_pipeline catches it and returns False *)
FeaturesRaise ==
  /\ stage = "step2"
  /\ error' = "exception"
  /\ returned' = "False"
  /\ stage' = "returned"
  /\ UNCHANGED <<detect, csv_files, csv_i, success_count, success, steps_run>>

(* if not success: return False; else steps 3 and 4, each of which completes or
   raises, and return True when both complete *)
CheckSuccess ==
  /\ stage = "check"
  /\ IF ~truthy(success)
     THEN /\ returned' = "False"
          /\ error' = error
          /\ steps_run' = steps_run
     ELSE \E ends \in {"completes", "detect_raises", "analysis_raises"} :
            /\ steps_run' =
                 CASE ends = "completes" ->
                        steps_run \o <<"detect_anomalies", "descriptive_analysis">>
                   [] ends = "detect_raises" -> steps_run
                   [] ends = "analysis_raises" -> Append(steps_run, "detect_anomalies")
            /\ error' = IF ends = "completes" THEN error ELSE "exception"
            /\ returned' = IF ends = "completes" THEN "True" ELSE "False"
  /\ stage' = "returned"
  /\ UNCHANGED <<detect, csv_files, csv_i, success_count, success>>

(* KeyboardInterrupt while a step runs: caught, and False returned *)
Interrupt ==
  /\ stage \in {"step1", "step2"}
  /\ error' = "interrupt"
  /\ returned' = "False"
  /\ stage' = "returned"
  /\ UNCHANGED <<detect, csv_files, csv_i, success_count, success, steps_run>>

NextPipeline ==
  \/ ConvertCsv \/ ConvertAllReturns \/ FeaturesComplete \/ FeaturesRaise
  \/ CheckSuccess \/ Interrupt

SpecPipeline == InitPipeline /\ [][NextPipeline]_vars

(* C16, as claimed: when the ingestion and create_aggregated_features have both
   completed without raising, run_full_pipeline goes on to detect_anomalies
   and then descriptive_analysis, and returns True if these complete too; it
   returns False, the later stages not run, only when a stage raised or the
   run was interrupted *)
C16_PipelineRunsAllStages ==
  stage = "returned" =>
    /\ returned = "False" => error # "none"
    /\ error = "none" =>
         /\ returned = "True"
         /\ steps_run = <<"convert_all_csvs", "create_aggregated_features",
                          "detect_anomalies", "descriptive_analysis">>

====
